---- MODULE Spec2Model ----
(***************************************************************************)
(* Credential vault of DR_ENV_Creator.py: the master-password gate         *)
(* (setup_password, verify_password), the api_keys table (init_db,         *)
(* list_keys, update_key), the .env export (export_env) and the menu that  *)
(* drives them.                                                            *)
(*                                                                         *)
(* Text is modelled as a sequence of one-character strings, so that        *)
(* upper(), lower(), strip(), replace() and the f-strings are computed     *)
(* character by character.  "ESC" stands for the single character \033.    *)
(* An optional value (Python None / SQL NULL) is the empty tuple, a        *)
(* present value v is the one-element tuple <<v>>.                         *)
(***************************************************************************)
EXTENDS Integers, Sequences, FiniteSets, TLC

VARIABLES
    pc,            \* position of the process in __main__ / menu()
    hashFile,      \* master.hash: [exists, content]
    db,            \* api_keys.db: [exists, rows]; rows in rowid order
    envFile,       \* .env: [exists, content]
    now,           \* the wall clock, in unix seconds
    lastOp,        \* the most recent call and what it returned / printed
    verdict,       \* outcome of verify_password in this run of the process
    setupPrompts,  \* number of "Set master password" prompts in this run
    verifyPrompts, \* number of "Enter master password" prompts in this run
    storeUsed,     \* some store operation ran in this run of the process
    setPw          \* the password typed at the prompt of setup_password

vars == <<pc, hashFile, db, envFile, now, lastOp, verdict, setupPrompts,
          verifyPrompts, storeUsed, setPw>>

----------------------------------------------------------------------------
(* Bounds and parameters of the program *)

MaxTick == 1

DaySecs == 86400

ExpiryDays == 90

WarnDays == 5

Now0 == 20760 * DaySecs

None == <<>>

Some(v) == <<v>>

----------------------------------------------------------------------------
(* Text helpers: str.upper, str.lower, str.strip, str.replace, str(int) *)

LowerLetters == <<"a", "b", "c", "d", "e", "f", "g", "h", "i", "j", "k", "l", "m", "n", "o", "p", "q", "r", "s", "t", "u", "v", "w", "x", "y", "z">>

UpperLetters == <<"A", "B", "C", "D", "E", "F", "G", "H", "I", "J", "K", "L", "M", "N", "O", "P", "Q", "R", "S", "T", "U", "V", "W", "X", "Y", "Z">>

Whitespace == {" ", "\t", "\n", "\r"}

\* the letters that str.upper / str.lower change, with their images
UpperOf ==
    [c \in {LowerLetters[i] : i \in 1..26} |->
        UpperLetters[CHOOSE i \in 1..26 : LowerLetters[i] = c]]

LowerOf ==
    [c \in {UpperLetters[i] : i \in 1..26} |->
        LowerLetters[CHOOSE i \in 1..26 : UpperLetters[i] = c]]

upper(s) ==
    [i \in 1..Len(s) |-> IF s[i] \in DOMAIN UpperOf THEN UpperOf[s[i]] ELSE s[i]]

lower(s) ==
    [i \in 1..Len(s) |-> IF s[i] \in DOMAIN LowerOf THEN LowerOf[s[i]] ELSE s[i]]

replace(s, old, new) ==
    [i \in 1..Len(s) |-> IF s[i] = old THEN new ELSE s[i]]

RECURSIVE lstrip(_)
lstrip(s) ==
    IF s # <<>> /\ Head(s) \in Whitespace THEN lstrip(Tail(s)) ELSE s

RECURSIVE rstrip(_)
rstrip(s) ==
    IF s # <<>> /\ s[Len(s)] \in Whitespace
    THEN rstrip(SubSeq(s, 1, Len(s) - 1)) ELSE s

strip(s) == rstrip(lstrip(s))

Digits == <<"0", "1", "2", "3", "4", "5", "6", "7", "8", "9">>

RECURSIVE natstr(_)
natstr(n) ==
    IF n < 10 THEN <<Digits[n + 1]>>
    ELSE natstr(n \div 10) \o <<Digits[(n % 10) + 1]>>

str(n) == IF n < 0 THEN <<"-">> \o natstr(0 - n) ELSE natstr(n)

RECURSIVE Concat(_)
Concat(ss) == IF ss = <<>> THEN <<>> ELSE Head(ss) \o Concat(Tail(ss))

----------------------------------------------------------------------------
(* PasswordGate *)

\* hashlib.sha256(pw.encode()).hexdigest() on the passwords of the model
sha256(pw) ==
    CASE pw = <<>> ->
           <<"e", "3", "b", "0", "c", "4", "4", "2", "9", "8", "f", "c", "1", "c", "1", "4", "9", "a", "f", "b", "f", "4", "c", "8", "9", "9", "6", "f", "b", "9", "2", "4", "2", "7", "a", "e", "4", "1", "e", "4", "6", "4", "9", "b", "9", "3", "4", "c", "a", "4", "9", "5", "9", "9", "1", "b", "7", "8", "5", "2", "b", "8", "5", "5">>
      [] pw = <<"a">> ->
           <<"c", "a", "9", "7", "8", "1", "1", "2", "c", "a", "1", "b", "b", "d", "c", "a", "f", "a", "c", "2", "3", "1", "b", "3", "9", "a", "2", "3", "d", "c", "4", "d", "a", "7", "8", "6", "e", "f", "f", "8", "1", "4", "7", "c", "4", "e", "7", "2", "b", "9", "8", "0", "7", "7", "8", "5", "a", "f", "e", "e", "4", "8", "b", "b">>
      [] pw = <<"b">> ->
           <<"3", "e", "2", "3", "e", "8", "1", "6", "0", "0", "3", "9", "5", "9", "4", "a", "3", "3", "8", "9", "4", "f", "6", "5", "6", "4", "e", "1", "b", "1", "3", "4", "8", "b", "b", "d", "7", "a", "0", "0", "8", "8", "d", "4", "2", "c", "4", "a", "c", "b", "7", "3", "e", "e", "a", "e", "d", "5", "9", "c", "0", "0", "9", "d">>

Passwords == {<<>>, <<"a">>}

NoFile == [exists |-> FALSE, content |-> <<>>]

File(c) == [exists |-> TRUE, content |-> c]

Op(name, args, result) == [op |-> name, args |-> args, result |-> result]

----------------------------------------------------------------------------
(* CredentialStore: the api_keys table.  A row carries the columns that    *)
(* list_keys selects; the AUTOINCREMENT id is the row's position in rows   *)
(* (a replaced row gets a fresh, larger id and so moves to the end), and   *)
(* updated_at is never read.                                               *)

DEFAULT_SERVICES ==
    << <<"o", "p", "e", "n", "a", "i">>, <<"a", "n", "t", "h", "r", "o", "p", "i", "c">>, <<"g", "e", "m", "i", "n", "i">>, <<"o", "l", "l", "a", "m", "a">>, <<"m", "i", "s", "t", "r", "a", "l">>, <<"c", "o", "h", "e", "r", "e">>,
       <<"h", "u", "g", "g", "i", "n", "g", "f", "a", "c", "e">>, <<"t", "o", "g", "e", "t", "h", "e", "r">>, <<"f", "i", "r", "e", "w", "o", "r", "k", "s">>, <<"g", "r", "o", "q">>, <<"l", "m", "s", "t", "u", "d", "i", "o">>,
       <<"p", "e", "r", "p", "l", "e", "x", "i", "t", "y">>, <<"e", "l", "e", "v", "e", "n", "l", "a", "b", "s">>, <<"s", "u", "p", "a", "b", "a", "s", "e">>, <<"l", "a", "n", "g", "c", "h", "a", "i", "n">>, <<"r", "e", "p", "l", "i", "c", "a", "t", "e">>,
       <<"s", "e", "r", "p", "a", "p", "i">>, <<"p", "i", "n", "e", "c", "o", "n", "e">>, <<"w", "e", "a", "v", "i", "a", "t", "e">>, <<"v", "e", "r", "c", "e", "l">>, <<"s", "c", "r", "a", "p", "e", "l", "e", "s", "s">>,
       <<"g", "m", "a", "i", "l", "_", "o", "a", "u", "t", "h", "2">> >>

Row(service, key, timestamp, model) ==
    [service |-> service, key |-> key, timestamp |-> timestamp, model |-> model]

HasService(rows, service) == \E i \in 1..Len(rows) : rows[i].service = service

RowOf(rows, service) ==
    rows[CHOOSE i \in 1..Len(rows) : rows[i].service = service]

\* a plain INSERT on a table without the UNIQUE constraint
InsertOrReplace_plain(rows, r) == Append(rows, r)

\* INSERT OR REPLACE INTO api_keys (...): the row that conflicts on the
\* UNIQUE service is deleted, the new row is appended
InsertOrReplace(rows, r) ==
    LET Other(x) == x.service # r.service
    IN  Append(SelectSeq(rows, Other), r)

\* seeding with INSERT OR REPLACE instead of INSERT OR IGNORE
InsertOrIgnore_replace(rows, service) ==
    InsertOrReplace(rows, Row(service, <<>>, None, None))

\* INSERT OR IGNORE INTO api_keys (service, key) VALUES (?, '')
InsertOrIgnore(rows, service) ==
    IF HasService(rows, service) THEN rows
    ELSE Append(rows, Row(service, <<>>, None, None))

RECURSIVE SeedDefaults(_, _)
SeedDefaults(rows, services) ==
    IF services = <<>> THEN rows
    ELSE SeedDefaults(InsertOrIgnore(rows, Head(services)), Tail(services))

env_key(service) == replace(upper(service), "-", "_") \o <<"_", "A", "P", "I", "_", "K", "E", "Y">>

days_remaining(timestamp, clock) ==
    ExpiryDays - ((clock - timestamp) \div DaySecs)

ExpiredText == <<" ", "ESC", "[", "3", "1", "m", "[", "E", "X", "P", "I", "R", "E", "D", "]", "ESC", "[", "0", "m">>

ExpiresText(d) == <<" ", "ESC", "[", "3", "3", "m", "[", "E", "x", "p", "i", "r", "e", "s", " ", "i", "n", " ">> \o str(d) \o <<" ", "d", "a", "y", "s", "]", "ESC", "[", "0", "m">>

ValidText(d) == <<" ", "ESC", "[", "3", "8", ";", "5", ";", "2", "0", "8", "m", "[", "V", "a", "l", "i", "d", " ", "f", "o", "r", " ">> \o str(d) \o <<" ", "d", "a", "y", "s", "]", "ESC", "[", "0", "m">>

UnknownText == <<" ", "ESC", "[", "9", "4", "m", "[", "U", "n", "k", "n", "o", "w", "n", " ", "s", "t", "a", "t", "u", "s", "]", "ESC", "[", "0", "m">>

NoExpiryText == <<" ", "ESC", "[", "9", "4", "m", "[", "T", "o", "k", "e", "n", " ", "s", "e", "t", " ", "(", "n", "o", " ", "e", "x", "p", "i", "r", "a", "t", "i", "o", "n", " ", "i", "n", "f", "o", ")", "]", "ESC", "[", "0", "m">>

\* Python truth value of the timestamp / model / key columns
Truthy(opt, zero) == opt # None /\ opt[1] # zero

status_info(service, key, timestamp, clock) ==
    IF service = <<"o", "l", "l", "a", "m", "a">> /\ Truthy(timestamp, 0)
    THEN LET d == days_remaining(timestamp[1], clock)
         IN  IF d <= 0 THEN ExpiredText
             ELSE IF d <= WarnDays THEN ExpiresText(d)
             ELSE IF d <= ExpiryDays THEN ValidText(d)
             ELSE UnknownText
    ELSE IF service = <<"o", "l", "l", "a", "m", "a">> /\ ~Truthy(timestamp, 0) /\ key # <<>>
    THEN NoExpiryText
    ELSE <<>>

model_info(model) ==
    IF Truthy(model, <<>>) THEN <<" ", "(">> \o model[1] \o <<")">> ELSE <<>>

list_keys(rows, clock) ==
    [i \in 1..Len(rows) |->
        << rows[i].service, rows[i].key, env_key(rows[i].service),
           status_info(rows[i].service, rows[i].key, rows[i].timestamp, clock)
             \o model_info(rows[i].model) >>]

\* update_key without the default of the timestamp
update_key_nostamp(rows, service, key, timestamp, model, clock) ==
    InsertOrReplace(rows, Row(service, key, timestamp, model))

\* update_key that keeps the model of the row it replaces
update_key_keepmodel(rows, service, key, timestamp, model, clock) ==
    LET ts == IF timestamp = None THEN clock ELSE timestamp[1]
        old == IF HasService(rows, service)
               THEN RowOf(rows, service).model ELSE None
    IN  InsertOrReplace(rows,
            Row(service, key, Some(ts), IF model # None THEN model ELSE old))

\* the rows after update_key(service, key, timestamp, model) at time clock
update_key(rows, service, key, timestamp, model, clock) ==
    LET ts == IF timestamp = None THEN clock ELSE timestamp[1]
    IN  IF model # None
        THEN InsertOrReplace(rows, Row(service, key, Some(ts), model))
        ELSE InsertOrReplace(rows, Row(service, key, Some(ts), None))

\* export_env without the "if key" filter of the loop
export_env_all(rows, clock) ==
    LET keys == list_keys(rows, clock)
        NonEmpty(k) == k[2] # <<>>
        Line(k) == env_key(k[1]) \o <<"=">> \o k[2] \o <<"\n">>
    IN  [content |-> Concat([i \in 1..Len(keys) |-> Line(keys[i])]),
         count |-> Len(SelectSeq(keys, NonEmpty))]

\* what export_env writes and the count it reports
export_env(rows, clock) ==
    LET keys == list_keys(rows, clock)
        NonEmpty(k) == k[2] # <<>>
        Line(k) == env_key(k[1]) \o <<"=">> \o k[2] \o <<"\n">>
        written == SelectSeq(keys, NonEmpty)
    IN  [content |-> Concat([i \in 1..Len(written) |-> Line(written[i])]),
         count |-> Len(SelectSeq(keys, NonEmpty))]

----------------------------------------------------------------------------
(* Inputs *)

RawKeys == {<<>>, <<" ", "k">>}

RawModels == {<<>>, <<"m", " ">>}

RawNames == {<<" ">>, <<" ", "A", "-", "b">>}

Tokens == {<<>>, <<"k">>}

OllamaModels == {<<>>, <<"m">>}

\* the rows that option 2 of the menu is asked to update
FocusServices == {<<"a", "-", "b">>, <<"o", "l", "l", "a", "m", "a">>}

TsInputs ==
    {0, Now0 - ExpiryDays * DaySecs, Now0 - 86 * DaySecs, Now0 - DaySecs,
     Now0 + 2 * DaySecs}

\* arguments of a call update_key(service, key, timestamp, model): the
\* expiry-tracked service at the timestamps around its window, the empty
\* service name, and a new service without a timestamp
DirectCalls ==
    {<<<<"o", "l", "l", "a", "m", "a">>, <<"k">>, Some(ts), None>> : ts \in TsInputs}
    \cup {<<<<>>, <<"k">>, Some(0), None>>,
          <<<<"a", "-", "b">>, <<"k">>, None, Some(<<"m">>)>>,
          <<<<"a", "-", "b">>, <<>>, None, None>>}

----------------------------------------------------------------------------
(* The process *)

Init ==
    /\ pc = "setup"
    /\ hashFile = NoFile
    /\ db = [exists |-> FALSE, rows |-> <<>>]
    /\ envFile = NoFile
    /\ now = Now0
    /\ lastOp = Op("start", <<>>, <<>>)
    /\ verdict = "none"
    /\ setupPrompts = 0
    /\ verifyPrompts = 0
    /\ storeUsed = FALSE
    /\ setPw = None

\* setup_password without the os.path.exists test
setup_password_always ==
    /\ pc = "setup"
    /\ pc' = "verify"
    /\ \E pw \in Passwords :
         /\ hashFile' = File(sha256(pw))
         /\ setupPrompts' = setupPrompts + 1
         /\ setPw' = Some(pw)
         /\ lastOp' = Op("ensureSetup", <<pw>>, "saved")
    /\ UNCHANGED <<db, envFile, now, verdict, verifyPrompts, storeUsed>>

setup_password ==
    /\ pc = "setup"
    /\ pc' = "verify"
    /\ IF hashFile.exists
       THEN /\ lastOp' = Op("ensureSetup", <<>>, "present")
            /\ UNCHANGED <<hashFile, setupPrompts, setPw>>
       ELSE \E pw \in Passwords :
            /\ hashFile' = File(sha256(pw))
            /\ setupPrompts' = setupPrompts + 1
            /\ setPw' = Some(pw)
            /\ lastOp' = Op("ensureSetup", <<pw>>, "saved")
    /\ UNCHANGED <<db, envFile, now, verdict, verifyPrompts, storeUsed>>

\* verify_password that goes on after "Incorrect password."
verify_password_noexit ==
    /\ pc = "verify"
    /\ IF ~hashFile.exists
       THEN /\ verdict' = "NoPasswordSet"
            /\ pc' = "exited"
            /\ lastOp' = Op("verify", <<>>, "NoPasswordSet")
            /\ UNCHANGED verifyPrompts
       ELSE \E pw \in Passwords :
            LET stored == strip(hashFile.content)
            IN  /\ verifyPrompts' = verifyPrompts + 1
                /\ pc' = "init"
                /\ IF sha256(pw) # stored
                   THEN /\ verdict' = "IncorrectPassword"
                        /\ lastOp' = Op("verify", <<pw>>, "IncorrectPassword")
                   ELSE /\ verdict' = "Granted"
                        /\ lastOp' = Op("verify", <<pw>>, "Granted")
    /\ UNCHANGED <<hashFile, db, envFile, now, setupPrompts, storeUsed, setPw>>

\* verify_password that compares the lengths of the two passwords' digests
verify_password_length ==
    /\ pc = "verify"
    /\ IF ~hashFile.exists
       THEN /\ verdict' = "NoPasswordSet"
            /\ pc' = "exited"
            /\ lastOp' = Op("verify", <<>>, "NoPasswordSet")
            /\ UNCHANGED verifyPrompts
       ELSE \E pw \in Passwords :
            LET stored == strip(hashFile.content)
            IN  /\ verifyPrompts' = verifyPrompts + 1
                /\ IF Len(sha256(pw)) # Len(stored)
                   THEN /\ verdict' = "IncorrectPassword"
                        /\ pc' = "exited"
                        /\ lastOp' = Op("verify", <<pw>>, "IncorrectPassword")
                   ELSE /\ verdict' = "Granted"
                        /\ pc' = "init"
                        /\ lastOp' = Op("verify", <<pw>>, "Granted")
    /\ UNCHANGED <<hashFile, db, envFile, now, setupPrompts, storeUsed, setPw>>

verify_password ==
    /\ pc = "verify"
    /\ IF ~hashFile.exists
       THEN /\ verdict' = "NoPasswordSet"
            /\ pc' = "exited"
            /\ lastOp' = Op("verify", <<>>, "NoPasswordSet")
            /\ UNCHANGED verifyPrompts
       ELSE \E pw \in Passwords :
            LET stored == strip(hashFile.content)
            IN  /\ verifyPrompts' = verifyPrompts + 1
                /\ IF sha256(pw) # stored
                   THEN /\ verdict' = "IncorrectPassword"
                        /\ pc' = "exited"
                        /\ lastOp' = Op("verify", <<pw>>, "IncorrectPassword")
                   ELSE /\ verdict' = "Granted"
                        /\ pc' = "init"
                        /\ lastOp' = Op("verify", <<pw>>, "Granted")
    /\ UNCHANGED <<hashFile, db, envFile, now, setupPrompts, storeUsed, setPw>>

\* CREATE TABLE IF NOT EXISTS, then INSERT OR IGNORE of every default
\* service.  A table made by this CREATE TABLE has the model and timestamp
\* columns, so the two ALTER TABLE branches are not taken.
init_db ==
    /\ pc = "init"
    /\ db' = [exists |-> TRUE, rows |-> SeedDefaults(db.rows, DEFAULT_SERVICES)]
    /\ storeUsed' = TRUE
    /\ lastOp' = Op("initialize", <<>>, <<>>)
    /\ pc' = "menu"
    /\ UNCHANGED <<hashFile, envFile, now, verdict, setupPrompts, verifyPrompts,
                   setPw>>

\* update_key as the menu and other callers run it
DoUpdate(service, key, timestamp, model) ==
    /\ db' = [db EXCEPT !.rows = update_key(@, service, key, timestamp, model, now)]
    /\ storeUsed' = TRUE
    /\ lastOp' = Op("update", <<service, key, timestamp, model>>,
                     [at |-> now,
                      before |-> IF HasService(db.rows, service)
                                 THEN Some(RowOf(db.rows, service).model)
                                 ELSE None])

\* choice "1"
MenuList ==
    /\ pc = "menu"
    /\ lastOp' = Op("list", <<>>, list_keys(db.rows, now))
    /\ storeUsed' = TRUE
    /\ UNCHANGED <<pc, hashFile, db, envFile, now, verdict, setupPrompts,
                   verifyPrompts, setPw>>

\* choice "2" with the number of a row other than ollama
MenuUpdate ==
    /\ pc = "menu"
    /\ LET keys_list == list_keys(db.rows, now)
       IN  \E n \in 1..Len(keys_list) :
             LET service_index == n - 1
                 s == keys_list[service_index + 1][1]
             IN  /\ s \in FocusServices
                 /\ s # <<"o", "l", "l", "a", "m", "a">>
                 /\ \E rawKey \in RawKeys, rawModel \in RawModels :
                      LET k == strip(rawKey)
                          model_name == strip(rawModel)
                      IN  IF model_name # <<>>
                          THEN DoUpdate(s, k, None, Some(model_name))
                          ELSE DoUpdate(s, k, None, None)
    /\ UNCHANGED <<pc, hashFile, envFile, now, verdict, setupPrompts,
                   verifyPrompts, setPw>>

\* choice "2" with the number of the ollama row
MenuUpdateOllama ==
    /\ pc = "menu"
    /\ LET keys_list == list_keys(db.rows, now)
       IN  /\ \E n \in 1..Len(keys_list) : keys_list[n][1] = <<"o", "l", "l", "a", "m", "a">>
           /\ lastOp' = Op("list", <<>>, keys_list)
    /\ pc' = "ollama"
    /\ storeUsed' = TRUE
    /\ UNCHANGED <<hashFile, db, envFile, now, verdict, setupPrompts,
                   verifyPrompts, setPw>>

\* choice "3"
MenuExport ==
    /\ pc = "menu"
    /\ LET e == export_env(db.rows, now)
       IN  /\ envFile' = File(e.content)
           /\ lastOp' = Op("export", <<>>, e.count)
    /\ storeUsed' = TRUE
    /\ UNCHANGED <<pc, hashFile, db, now, verdict, setupPrompts,
                   verifyPrompts, setPw>>

\* choice "4"
MenuAdd ==
    /\ pc = "menu"
    /\ \E rawName \in RawNames, rawKey \in RawKeys, rawModel \in RawModels :
         LET service_name == lower(strip(rawName))
             api_key == strip(rawKey)
             model_name == strip(rawModel)
         IN  IF service_name = <<>>
             THEN /\ lastOp' = Op("print", <<>>, "Service name cannot be empty.")
                  /\ UNCHANGED <<db, storeUsed>>
             ELSE DoUpdate(service_name, api_key, None,
                           IF model_name # <<>> THEN Some(model_name) ELSE None)
    /\ UNCHANGED <<pc, hashFile, envFile, now, verdict, setupPrompts,
                   verifyPrompts, setPw>>

\* choice "5"
MenuExit ==
    /\ pc = "menu"
    /\ pc' = "exited"
    /\ lastOp' = Op("exit", <<>>, <<>>)
    /\ UNCHANGED <<hashFile, db, envFile, now, verdict, setupPrompts,
                   verifyPrompts, storeUsed, setPw>>

\* choice "6"
MenuOllama ==
    /\ pc = "menu"
    /\ pc' = "ollama"
    /\ lastOp' = Op("print", <<>>, "--- Ollama API Token Setup ---")
    /\ UNCHANGED <<hashFile, db, envFile, now, verdict, setupPrompts,
                   verifyPrompts, storeUsed, setPw>>

\* any other choice, and choice "2" answered with a number out of range or
\* with text that is no number: a message is printed and the loop goes on
MenuInvalid ==
    /\ pc = "menu"
    /\ lastOp' = Op("print", <<>>, "Invalid choice.")
    /\ UNCHANGED <<pc, hashFile, db, envFile, now, verdict, setupPrompts,
                   verifyPrompts, storeUsed, setPw>>

\* handle_ollama_token, choice "2"
OllamaSetToken ==
    /\ pc = "ollama"
    /\ \E token \in Tokens, model \in OllamaModels :
         IF token # <<>>
         THEN DoUpdate(<<"o", "l", "l", "a", "m", "a">>, token, Some(now), Some(model))
         ELSE /\ lastOp' = Op("print", <<>>, "Ollama API token not set.")
              /\ UNCHANGED <<db, storeUsed>>
    /\ UNCHANGED <<pc, hashFile, envFile, now, verdict, setupPrompts,
                   verifyPrompts, setPw>>

\* handle_ollama_token, choices "1", "3" and any invalid choice: text only
OllamaInfo ==
    /\ pc = "ollama"
    /\ lastOp' = Op("print", <<>>, "Please run ...")
    /\ UNCHANGED <<pc, hashFile, db, envFile, now, verdict, setupPrompts,
                   verifyPrompts, storeUsed, setPw>>

\* handle_ollama_token, choice "4"
OllamaBack ==
    /\ pc = "ollama"
    /\ pc' = "menu"
    /\ lastOp' = Op("print", <<>>, "DR-Silver Bullet Menu")
    /\ UNCHANGED <<hashFile, db, envFile, now, verdict, setupPrompts,
                   verifyPrompts, storeUsed, setPw>>

\* update_key called with arguments of the caller's choosing
UpdateKeyCall ==
    /\ pc = "menu"
    /\ \E c \in DirectCalls : DoUpdate(c[1], c[2], c[3], c[4])
    /\ UNCHANGED <<pc, hashFile, envFile, now, verdict, setupPrompts,
                   verifyPrompts, setPw>>

\* the script is started again; the three files stay on disk
Restart ==
    /\ pc = "exited"
    /\ pc' = "setup"
    /\ lastOp' = Op("start", <<>>, <<>>)
    /\ verdict' = "none"
    /\ setupPrompts' = 0
    /\ verifyPrompts' = 0
    /\ storeUsed' = FALSE
    /\ UNCHANGED <<hashFile, db, envFile, now, setPw>>

\* time passes
Tick ==
    /\ now < Now0 + MaxTick * DaySecs
    /\ now' = now + DaySecs
    /\ UNCHANGED <<pc, hashFile, db, envFile, lastOp, verdict, setupPrompts,
                   verifyPrompts, storeUsed, setPw>>

\* master.hash is deleted by hand (the only way to reset the password)
RemoveArtifact ==
    /\ hashFile.exists
    /\ hashFile' = NoFile
    /\ UNCHANGED <<pc, db, envFile, now, lastOp, verdict, setupPrompts,
                   verifyPrompts, storeUsed, setPw>>

\* the state at the second and every later start: a password was set
\* (here "a") and master.hash is on disk
InitVault ==
    /\ pc = "setup"
    /\ hashFile = File(sha256(<<"a">>))
    /\ db = [exists |-> FALSE, rows |-> <<>>]
    /\ envFile = NoFile
    /\ now = Now0
    /\ lastOp = Op("start", <<>>, <<>>)
    /\ verdict = "none"
    /\ setupPrompts = 0
    /\ verifyPrompts = 0
    /\ storeUsed = FALSE
    /\ setPw = Some(<<"a">>)

Next ==
    \/ setup_password
    \/ verify_password
    \/ init_db
    \/ MenuList
    \/ MenuUpdate
    \/ MenuUpdateOllama
    \/ MenuExport
    \/ MenuAdd
    \/ MenuExit
    \/ MenuOllama
    \/ MenuInvalid
    \/ OllamaSetToken
    \/ OllamaInfo
    \/ OllamaBack
    \/ Restart
    \/ Tick

\* the vault in use: every choice of the menu, from the second start on
Spec == InitVault /\ [][Next]_vars

GateNext ==
    \/ setup_password
    \/ verify_password
    \/ init_db
    \/ MenuList
    \/ MenuAdd
    \/ MenuExport
    \/ MenuExit
    \/ Restart

\* the gate from the first start on
SpecGate == Init /\ [][GateNext]_vars

ResetNext ==
    \/ GateNext
    \/ RemoveArtifact

\* the gate when master.hash may be deleted by hand
SpecReset == Init /\ [][ResetNext]_vars

CallsNext ==
    \/ setup_password
    \/ verify_password
    \/ init_db
    \/ MenuList
    \/ UpdateKeyCall
    \/ MenuExit
    \/ Restart
    \/ Tick

\* update_key under arguments of the caller's choosing
SpecCalls == InitVault /\ [][CallsNext]_vars

----------------------------------------------------------------------------
(* Properties *)

StoreOps == {"initialize", "list", "update", "export"}

EndsWith(s, suffix) ==
    /\ Len(s) >= Len(suffix)
    /\ SubSeq(s, Len(s) - Len(suffix) + 1, Len(s)) = suffix

\* the env names the services of the model are expected to get
ExpectedEnvName(service) ==
    CASE service = <<"a", "-", "b">> -> <<"A", "_", "B", "_", "A", "P", "I", "_", "K", "E", "Y">>
      [] service = <<"o", "l", "l", "a", "m", "a">> -> <<"O", "L", "L", "A", "M", "A", "_", "A", "P", "I", "_", "K", "E", "Y">>
      [] service = <<>> -> <<"_", "A", "P", "I", "_", "K", "E", "Y">>

RowCount(rows, service) ==
    Cardinality({i \in 1..Len(rows) : rows[i].service = service})

EmptyRow(service) == Row(service, <<>>, None, None)

InDefaults(service) ==
    \E i \in 1..Len(DEFAULT_SERVICES) : DEFAULT_SERVICES[i] = service

\* C1: no store operation runs in a run of the process unless
\* verify_password granted access in that run; after NoPasswordSet or
\* IncorrectPassword the process has exited, it prompted at most once and
\* it touched neither the table nor the env file.
C1_GateBeforeStore ==
    /\ storeUsed => verdict = "Granted"
    /\ lastOp.op \in StoreOps => verdict = "Granted"
    /\ pc \in {"init", "menu", "ollama"} => verdict = "Granted"
    /\ verifyPrompts <= 1
    /\ verdict \in {"NoPasswordSet", "IncorrectPassword"} =>
         /\ pc = "exited"
         /\ ~storeUsed
         /\ lastOp.op = "verify"
    /\ verdict = "NoPasswordSet" => verifyPrompts = 0

\* a wrong password ended a run although the table of an earlier run exists
C1_Witness ==
    /\ verdict = "IncorrectPassword"
    /\ pc = "exited"
    /\ verifyPrompts = 1
    /\ db.exists

\* C2: with the password P of setup_password on disk, verify_password
\* grants access exactly when the entered password equals P, and answers
\* IncorrectPassword for every other input; also for the empty P.
C2_VerifyIffEqual ==
    (lastOp.op = "verify" /\ lastOp.args # <<>>) =>
        /\ setPw # None
        /\ (lastOp.result = "Granted") <=> (lastOp.args[1] = setPw[1])
        /\ (lastOp.args[1] # setPw[1]) => (lastOp.result = "IncorrectPassword")

\* the empty password was set and the empty password was granted access
C2_Witness ==
    /\ lastOp.op = "verify"
    /\ lastOp.result = "Granted"
    /\ setPw = Some(<<>>)
    /\ lastOp.args = <<<<>>>>

\* C3: once master.hash exists no step changes it, and a call of
\* setup_password that finds it neither prompts nor records a password.
C3_ArtifactImmutable ==
    [][hashFile.exists =>
         /\ hashFile' = hashFile
         /\ setPw' = setPw
         /\ pc = "setup" => setupPrompts' = setupPrompts]_vars

\* setup_password ran in a later run, found the artifact and did not prompt
C3_Witness ==
    /\ lastOp.op = "ensureSetup"
    /\ lastOp.result = "present"
    /\ setupPrompts = 0
    /\ hashFile.exists
    /\ db.exists

\* C4: init_db leaves every row that exists as it is (key, model, timestamp
\* and position), and every row it adds is an empty row of a default service
\* that had no row; afterwards every default service has a row.
C4_InitKeepsRows ==
    [][(pc = "init" /\ pc' = "menu") =>
         /\ Len(db'.rows) >= Len(db.rows)
         /\ \A i \in 1..Len(db.rows) : db'.rows[i] = db.rows[i]
         /\ \A i \in (Len(db.rows) + 1)..Len(db'.rows) :
              /\ db'.rows[i] = EmptyRow(db'.rows[i].service)
              /\ InDefaults(db'.rows[i].service)
              /\ ~HasService(db.rows, db'.rows[i].service)
         /\ \A i \in 1..Len(DEFAULT_SERVICES) :
              RowCount(db'.rows, DEFAULT_SERVICES[i]) = 1]_vars

\* init_db has just run on a table in which a default service has a value
C4_Witness ==
    /\ lastOp.op = "initialize"
    /\ HasService(db.rows, <<"o", "l", "l", "a", "m", "a">>)
    /\ RowOf(db.rows, <<"o", "l", "l", "a", "m", "a">>).key # <<>>
    /\ RowOf(db.rows, <<"o", "l", "l", "a", "m", "a">>).model # None

\* C5: after update_key(service, key, timestamp, model) the table has exactly
\* one row of the service, with the given key and with a timestamp: the given
\* one, or the clock of the call when none was given; list_keys then returns
\* the row with its env name and, for a non-empty model, an annotation that
\* ends with the model in parentheses.
C5_UpsertStamps ==
    lastOp.op = "update" =>
        LET service == lastOp.args[1]
            key == lastOp.args[2]
            timestamp == lastOp.args[3]
            model == lastOp.args[4]
            keys == list_keys(db.rows, now)
        IN  /\ RowCount(db.rows, service) = 1
            /\ RowOf(db.rows, service).key = key
            /\ RowOf(db.rows, service).timestamp # None
            /\ RowOf(db.rows, service).timestamp =
                 IF timestamp = None THEN Some(lastOp.result.at) ELSE timestamp
            /\ \E i \in 1..Len(keys) :
                 /\ keys[i][1] = service
                 /\ keys[i][2] = key
                 /\ keys[i][3] = ExpectedEnvName(service)
                 /\ (model # None /\ model[1] # <<>>) =>
                      EndsWith(keys[i][4], <<" ", "(">> \o model[1] \o <<")">>)

\* a service unknown before was updated without a timestamp, with a model,
\* and the clock has moved on since
C5_Witness ==
    /\ lastOp.op = "update"
    /\ lastOp.args[1] = <<"a", "-", "b">>
    /\ lastOp.args[3] = None
    /\ lastOp.args[4] = Some(<<"m">>)
    /\ lastOp.result.before = None
    /\ now > lastOp.result.at

\* C6: after update_key without a model on a row whose model was non-empty
\* the row has no model and its annotation has no "(model)" suffix; after
\* update_key with a model the row has that model.
C6_ModelReplaced ==
    lastOp.op = "update" =>
        LET service == lastOp.args[1]
            model == lastOp.args[4]
            before == lastOp.result.before
            keys == list_keys(db.rows, now)
        IN  /\ (model = None /\ before # None /\ Truthy(before[1], <<>>)) =>
                 /\ RowOf(db.rows, service).model = None
                 /\ \A i \in 1..Len(keys) :
                      keys[i][1] = service => ~EndsWith(keys[i][4], <<")">>)
            /\ model # None => RowOf(db.rows, service).model = model

\* a row with a model was updated without one
C6_Witness ==
    /\ lastOp.op = "update"
    /\ lastOp.args[4] = None
    /\ lastOp.result.before = Some(Some(<<"m">>))
    /\ lastOp.args[2] # <<>>

\* the file export_env is expected to write for the rows
RECURSIVE ExpectedEnv(_)
ExpectedEnv(rows) ==
    IF rows = <<>> THEN <<>>
    ELSE (IF Head(rows).key = <<>> THEN <<>>
          ELSE ExpectedEnvName(Head(rows).service) \o <<"=">> \o Head(rows).key
                 \o <<"\n">>)
         \o ExpectedEnv(Tail(rows))

LineCount(content) ==
    Cardinality({i \in 1..Len(content) : content[i] = "\n"})

\* C7: export_env replaces the content of .env by one line ENV_VAR=value for
\* each row with a non-empty key, in the order of the rows; the count it
\* reports is the number of lines; and it changes no row.
C7_ExportExact ==
    /\ [](lastOp.op = "export" =>
            /\ envFile.exists
            /\ envFile.content = ExpectedEnv(db.rows)
            /\ lastOp.result = LineCount(envFile.content)
            /\ lastOp.result =
                 Cardinality({i \in 1..Len(db.rows) : db.rows[i].key # <<>>}))
    /\ [][(envFile' # envFile \/ lastOp'.op = "export") => db' = db]_vars

\* an export wrote the hyphenated service and the expiry-tracked one and
\* skipped the rows without a key
C7_Witness ==
    /\ lastOp.op = "export"
    /\ lastOp.result = 2
    /\ HasService(db.rows, <<"a", "-", "b">>)
    /\ RowOf(db.rows, <<"a", "-", "b">>).key = <<"k">>
    /\ RowOf(db.rows, <<"o", "l", "l", "a", "m", "a">>).key = <<"k">>
    /\ RowOf(db.rows, <<"o", "p", "e", "n", "a", "i">>).key = <<>>

\* C8: for the ollama row with a timestamp, the status of list_keys follows
\* the days remaining (expired at <= 0, expiring soon in (0, 5], valid in
\* (5, 90]), and the statuses of a row without expiry information occur only
\* when no timestamp is stored.
C8_StatusFromTimestamp ==
    \A i \in 1..Len(db.rows) :
        LET r == db.rows[i]
            st == status_info(r.service, r.key, r.timestamp, now)
        IN  (r.service = <<"o", "l", "l", "a", "m", "a">>) =>
              /\ r.timestamp # None =>
                   LET d == days_remaining(r.timestamp[1], now)
                   IN  /\ d <= 0 => st = ExpiredText
                       /\ (0 < d /\ d <= WarnDays) => st = ExpiresText(d)
                       /\ (WarnDays < d /\ d <= ExpiryDays) => st = ValidText(d)
              /\ st \in {NoExpiryText, <<>>} => r.timestamp = None

\* C9: no row of the table has the empty string as its service.
C9_NoEmptyService ==
    \A i \in 1..Len(db.rows) : db.rows[i].service # <<>>

\* C10: no step leaves two rows of one service or drops the row of a
\* service; update_key changes no row of another service; list_keys and
\* export_env change no row.
C10_RowsKept ==
    [][/\ Cardinality({db'.rows[i].service : i \in 1..Len(db'.rows)})
            = Len(db'.rows)
       /\ {db.rows[i].service : i \in 1..Len(db.rows)}
            \subseteq {db'.rows[i].service : i \in 1..Len(db'.rows)}
       /\ lastOp'.op = "update" =>
            LET Other(r) == r.service # lastOp'.args[1]
            IN  {db.rows[i] : i \in {j \in 1..Len(db.rows) : Other(db.rows[j])}}
                  = {db'.rows[i] :
                       i \in {j \in 1..Len(db'.rows) : Other(db'.rows[j])}}
       /\ lastOp'.op \in {"list", "export"} => db' = db]_vars

\* a service was updated again while another updated service had values
C10_Witness ==
    /\ lastOp.op = "update"
    /\ lastOp.args[1] = <<"a", "-", "b">>
    /\ lastOp.result.before # None
    /\ RowOf(db.rows, <<"o", "l", "l", "a", "m", "a">>).key = <<"k">>
    /\ RowOf(db.rows, <<"o", "l", "l", "a", "m", "a">>).model = Some(<<"m">>)
====
